---- MODULE Spec2Model ----
(***************************************************************************)
(* Model of the memoized, steppable parser-combinator engine of gll        *)
(* (memoize, ParserTask, str, choice, sequence).                           *)
(*                                                                         *)
(* Objects live in heaps.  An object's identity is a name that is unique   *)
(* by construction: a Parser closure is named by its combinator, the       *)
(* arguments it closes over and the number n of closures created so far    *)
(* for deeply-equal arguments; a ParserTask by the parser and input it was *)
(* created for and the number n of tasks created so far for that pair.     *)
(* Two objects are the same object iff their names are equal, so sharing   *)
(* shows as n = 1 everywhere and a duplicate as some n = 2.                *)
(* A memo array is kept as the set of its entries, each with its position  *)
(* k among the entries with deeply-equal args: find() returns the first.   *)
(* Strings are sequences of one-character strings.  A matched value is     *)
(* tagged: [str |-> s] for a literal, [list |-> vs] for the array a        *)
(* sequence accumulates.                                                   *)
(***************************************************************************)
EXTENDS Integers, Sequences, FiniteSets, TLC

\* ------------------------------------------------------------- bounds
MaxLit == 1
MaxLen == 2
MaxArity == 2
MaxParsers == 3
MaxTasks == 4
MaxStrTasks == 2
MaxSeq == 3
MaxGrammarTasks == 17
MaxRegexParsers == 2
MaxRegexTasks == 2
MaxRegistryParsers == 4

\* the alphabet of the literals, and the letters the driver's inputs are made of
Chars == {"a", "b"}

InputChars == {"a"}

Strs(C, n) == UNION {[1..k -> C] : k \in 0..n}

\* the driver of Spec builds str parsers of non-empty literals and parses
\* inputs over InputChars (SpecStr covers every literal and input over Chars)
Literals == Strs(Chars, MaxLit) \ {<<>>}

Inputs == Strs(InputChars, MaxLen)

VARIABLES
    memo,      \* the memo arrays of the three memoized combinators
    parsers,   \* heap of Parser closures: parser |-> its own task memo
    tasks,     \* heap of ParserTask objects with their handlers' closure variables
    thrown     \* TRUE once a call has thrown a TypeError (uncaught: the program ends)

vars == <<memo, parsers, tasks, thrown>>

\* ------------------------------------------------------------- strings
\* input.includes(value): the literal found anywhere, not only at the front
Includes(input, value) ==
    \E k \in 0..Len(input) :
        /\ k + Len(value) <= Len(input)
        /\ SubSeq(input, k + 1, k + Len(value)) = value

StartsWith(input, value) ==
    /\ Len(value) <= Len(input)
    /\ SubSeq(input, 1, Len(value)) = value

\* input.substr(0, start): the part consumed instead of the part left
SubstrHead(input, start) == SubSeq(input, 1, start)

\* the substring from start without the offset applied: nothing is consumed
SubstrFromZero(input, start) == input

Substr(input, start) == SubSeq(input, start + 1, Len(input))

\* ------------------------------------------------------------- results
Undefined == [undefined |-> TRUE]

failure == [success |-> FALSE]

Success(result, remaining) ==
    [success |-> TRUE, result |-> result, remaining |-> remaining]

\* ------------------------------------------------------------- memoize
\* === on the argument arrays: every call passes a fresh array, never equal
sameReference(a, b) == FALSE

\* deep-equal on argument lists: strings by content, arrays element-wise,
\* functions (Parsers) by identity, which is equality of their names.
deepEqual(a, b) == a = b

\* the entries of m whose args are deeply equal to args
MemoMatches(m, args) ==
    {e \in m : Len(e.args) = Len(args) /\ deepEqual(e.args, args)}

\* a find that never hits: every call is a miss
MemoFindNothing(m, args) == <<>>

\* memo.find(...): <<the first matching entry>>, or <<>> when find returns undefined
MemoFind(m, args) ==
    LET hits == MemoMatches(m, args)
    IN IF hits = {} THEN <<>>
       ELSE <<CHOOSE e \in hits : \A f \in hits : e.k <= f.k>>

\* the entry is built but never pushed
MemoPushDropped(m, args, result) == m

\* memo = [{ args, result }]: the new entry replaces the array
MemoPushReplacing(m, args, result) == {[args |-> args, result |-> result, k |-> 1]}

\* memo.push({ args, result })
MemoPush(m, args, result) ==
    m \cup {[args |-> args, result |-> result,
             k |-> Cardinality({e \in m : e.args = args}) + 1]}

\* ------------------------------------------------------------- ParserTask
\* new ParserTask(handler): unresolved, no result; the other fields are the
\* variables the handler closes over (acc is the sequence's `result` array,
\* task its `task` variable, tasks the choice's `tasks` array).
NewTask(ts, task) ==
    [resolved |-> FALSE, result |-> Undefined, runs |-> 0, calls |-> 0,
     tasks |-> ts, acc |-> <<>>, remaining |-> <<>>, i |-> 0, task |-> task]

\* the name of the next task object created for (p, input)
TaskName(st, p, input) ==
    [p |-> p, input |-> input,
     n |-> Cardinality({t \in DOMAIN st.tasks : t.p = p /\ t.input = input}) + 1]

Alloc(st, p, input, task) ==
    LET t == TaskName(st, p, input)
    IN [st |-> [st EXCEPT !.tasks = @ @@ (t :> task)], ret |-> <<t>>]

\* this.result = {...} without this.resolved = true
successFnKeepsFlag(st, t, result, remaining) ==
    [st EXCEPT !.tasks[t].result = Success(result, remaining),
               !.tasks[t].calls = @ + 1]

successFn(st, t, result, remaining) ==
    [st EXCEPT !.tasks[t].resolved = TRUE,
               !.tasks[t].result = Success(result, remaining),
               !.tasks[t].calls = @ + 1]

\* this.result = failure without this.resolved = true
failureFnKeepsFlag(st, t) ==
    [st EXCEPT !.tasks[t].result = failure,
               !.tasks[t].calls = @ + 1]

failureFn(st, t) ==
    [st EXCEPT !.tasks[t].resolved = TRUE,
               !.tasks[t].result = failure,
               !.tasks[t].calls = @ + 1]

\* get done()
done(st, t) == st.tasks[t].resolved

Throw(st) == [st EXCEPT !.thrown = TRUE]

\* ------------------------------------------------------------- parsers
RECURSIVE Call(_, _, _)
RECURSIVE CallAll(_, _, _, _)
RECURSIVE Step(_, _)
RECURSIVE StepAll(_, _, _)

RECURSIVE CallAllStepping(_, _, _, _)
\* tasks.push(parser(input)) followed by a step() of the task just pushed
CallAllStepping(st, ps, input, acc) ==
    IF ps = <<>> THEN [st |-> st, ret |-> acc]
    ELSE LET c == Call(st, Head(ps), input)
         IN IF c.st.thrown THEN [st |-> c.st, ret |-> acc]
            ELSE CallAllStepping(Step(c.st, c.ret[1]).st, Tail(ps), input,
                                 acc \o c.ret)

\* no alternative's task is requested when the choice task is created
CallAllLazy(st, ps, input, acc) == [st |-> st, ret |-> acc]

\* for (const parser of parsers) tasks.push(parser(input));
\* ret is the list of tasks pushed so far; a throw leaves the loop.
CallAll(st, ps, input, acc) ==
    IF ps = <<>> THEN [st |-> st, ret |-> acc]
    ELSE LET c == Call(st, Head(ps), input)
         IN IF c.st.thrown THEN [st |-> c.st, ret |-> acc]
            ELSE CallAll(c.st, Tail(ps), input, acc \o c.ret)

\* str(value)(input), memo miss
StrTask(st, p, input) == Alloc(st, p, input, NewTask(<<>>, <<>>))

\* choice(parsers)(input), memo miss: one child task per alternative, eagerly
ChoiceTask(st, p, input) ==
    LET c == CallAll(st, p.parsers, input, <<>>)
    IN IF c.st.thrown THEN [st |-> c.st, ret |-> <<>>]
       ELSE Alloc(c.st, p, input, NewTask(c.ret, <<>>))

\* sequence(parsers)(input), memo miss: parsers[0](input) is called before the
\* task exists; with an empty list parsers[0] is undefined and the call throws.
SequenceTask(st, p, input) ==
    IF Len(p.parsers) = 0 THEN [st |-> Throw(st), ret |-> <<>>]
    ELSE LET c == Call(st, p.parsers[1], input)
         IN IF c.st.thrown THEN [st |-> c.st, ret |-> <<>>]
            ELSE Alloc(c.st, p, input,
                       [NewTask(<<>>, c.ret) EXCEPT !.remaining = input])

\* parser(input): the inner memoize, keyed by the input string
Call(st, p, input) ==
    LET found == MemoFind(st.parsers[p], <<input>>)
    IN IF found # <<>> THEN [st |-> st, ret |-> <<found[1].result>>]
       ELSE LET r == IF p.kind = "str" THEN StrTask(st, p, input)
                     ELSE IF p.kind \in {"choice", "choice2"}
                     THEN ChoiceTask(st, p, input)
                     ELSE SequenceTask(st, p, input)
            IN IF r.st.thrown THEN [st |-> r.st, ret |-> <<>>]
               ELSE [st |-> [r.st EXCEPT !.parsers[p] =
                                            MemoPush(@, <<input>>, r.ret[1])],
                     ret |-> r.ret]

\* ------------------------------------------------------------- handlers
\* Kind "choice" is the choice that decides once every alternative is
\* resolved; kind "choice2" is the earlier choice, which returns at the first
\* alternative found resolved to a Success.  The two engines are otherwise
\* the same: memo by deep-equal arguments, task memo by input, str, sequence.
\* success(value, remaining) without the return: failure() is called as well
StrHandlerFallsThrough(st, t) ==
    IF StartsWith(t.input, t.p.value)
    THEN failureFn(successFn(st, t, [str |-> t.p.value],
                             Substr(t.input, Len(t.p.value))), t)
    ELSE failureFn(st, t)

StrHandler(st, t) ==
    LET input == t.input
        value == t.p.value
    IN IF StartsWith(input, value)
       THEN successFn(st, t, [str |-> value], Substr(input, Len(value)))
       ELSE failureFn(st, t)

\* for (const task of tasks) task.step();
StepAll(st, ts, k) ==
    IF k > Len(ts) \/ st.thrown THEN st
    ELSE StepAll(Step(st, ts[k]).st, ts, k + 1)

\* the scan keeps the last Success instead of returning at the first
LastSuccess(st, ts) ==
    LET ok == {k \in 1..Len(ts) : st.tasks[ts[k]].result.success}
    IN IF ok = {} THEN <<>>
       ELSE <<ts[CHOOSE k \in ok : \A j \in ok : k >= j]>>

\* for (const task of tasks) if (task.result.success) return ...:
\* <<the first task in declaration order whose result is a Success>>, or <<>>
FirstSuccess(st, ts) ==
    LET ok == {k \in 1..Len(ts) : st.tasks[ts[k]].result.success}
    IN IF ok = {} THEN <<>>
       ELSE <<ts[CHOOSE k \in ok : \A j \in ok : k <= j]>>

\* tasks.some(t => t.done)
SomeDone(st, ts) == \E k \in 1..Len(ts) : st.tasks[ts[k]].resolved

\* tasks.every(t => t.done)
EveryDone(st, ts) == \A k \in 1..Len(ts) : st.tasks[ts[k]].resolved

RECURSIVE ChoiceLoop2(_, _, _, _)
\* the handler of the earlier choice (kind "choice2"), from its k-th task on:
\* for (const task of tasks) if (task.step()) { if (match.success) return
\* success(...) }, then failure() if every task is done
ChoiceLoop2(st, t, ts, k) ==
    IF st.thrown THEN st
    ELSE IF k > Len(ts)
    THEN IF EveryDone(st, ts) THEN failureFn(st, t) ELSE st
    ELSE LET r == Step(st, ts[k])
         IN IF r.st.thrown THEN r.st
            ELSE IF r.ret /\ r.st.tasks[ts[k]].result.success
            THEN successFn(r.st, t, r.st.tasks[ts[k]].result.result,
                           r.st.tasks[ts[k]].result.remaining)
            ELSE ChoiceLoop2(r.st, t, ts, k + 1)

ChoiceHandler2(st, t) == ChoiceLoop2(st, t, st.tasks[t].tasks, 1)

\* the choice that returns at the first child it finds resolved to a Success
ChoiceHandlerReturnsEarly(st, t) == ChoiceHandler2(st, t)

ChoiceHandler(st, t) ==
    LET ts == st.tasks[t].tasks
        s1 == StepAll(st, ts, 1)
    IN IF s1.thrown THEN s1
       ELSE IF EveryDone(s1, ts)
       THEN LET w == FirstSuccess(s1, ts)
            IN IF w # <<>>
               THEN successFn(s1, t, s1.tasks[w[1]].result.result,
                              s1.tasks[w[1]].result.remaining)
               ELSE failureFn(s1, t)
       ELSE s1

\* result.push(match.result) alone: the cursor stays where it was
SeqPushKeepsCursor(st, t, match) ==
    [st EXCEPT !.tasks[t].acc = Append(@, match.result)]

\* result.push(match.result); remaining = match.remaining;
SeqPush(st, t, match) ==
    [st EXCEPT !.tasks[t].acc = Append(@, match.result),
               !.tasks[t].remaining = match.remaining]

\* i++ moved before the test
SeqIsLastAfterIncrement(i, ps) == i + 1 = Len(ps) - 1

\* i == parsers.length - 1
SeqIsLast(i, ps) == i = Len(ps) - 1

\* the next child's task is requested before the Failure is looked at
SequenceHandlerRequestsNext(st, t) ==
    LET child == st.tasks[t].task[1]
        r == Step(st, child)
        s1 == r.st
        ps == t.p.parsers
    IN IF s1.thrown \/ ~r.ret THEN s1
       ELSE LET match == s1.tasks[child].result
                i == s1.tasks[t].i
            IN IF ~match.success
               THEN IF i + 2 > Len(ps) THEN failureFn(s1, t)
                    ELSE failureFn(Call(s1, ps[i + 2], s1.tasks[t].remaining).st, t)
               ELSE LET s2 == SeqPush(s1, t, match)
                    IN IF SeqIsLast(i, ps)
                       THEN successFn(s2, t, [list |-> s2.tasks[t].acc],
                                      s2.tasks[t].remaining)
                       ELSE LET s3 == [s2 EXCEPT !.tasks[t].i = i + 1]
                                c == Call(s3, ps[i + 2], s3.tasks[t].remaining)
                            IN IF c.st.thrown THEN c.st
                               ELSE [c.st EXCEPT !.tasks[t].task = c.ret]

SequenceHandler(st, t) ==
    LET child == st.tasks[t].task[1]
        r == Step(st, child)
        s1 == r.st
    IN IF s1.thrown \/ ~r.ret THEN s1
       ELSE LET match == s1.tasks[child].result
            IN IF ~match.success THEN failureFn(s1, t)
               ELSE LET s2 == SeqPush(s1, t, match)
                        i == s2.tasks[t].i
                        ps == t.p.parsers
                    IN IF SeqIsLast(i, ps)
                       THEN successFn(s2, t, [list |-> s2.tasks[t].acc],
                                      s2.tasks[t].remaining)
                       ELSE LET s3 == [s2 EXCEPT !.tasks[t].i = i + 1]
                            IN IF i + 2 > Len(ps) THEN Throw(s3)
                               ELSE LET c == Call(s3, ps[i + 2],
                                                  s3.tasks[t].remaining)
                                    IN IF c.st.thrown THEN c.st
                                       ELSE [c.st EXCEPT !.tasks[t].task = c.ret]

Handler(st, t) ==
    IF t.p.kind = "str" THEN StrHandler(st, t)
    ELSE IF t.p.kind = "choice" THEN ChoiceHandler(st, t)
    ELSE IF t.p.kind = "choice2" THEN ChoiceHandler2(st, t)
    ELSE SequenceHandler(st, t)

\* step() without the `if (!this.resolved)` guard
StepUnguarded(st, t) ==
    LET s1 == Handler([st EXCEPT !.tasks[t].runs = @ + 1], t)
    IN [st |-> s1, ret |-> s1.tasks[t].resolved]

\* step() returning the flag it read before it invoked the handler
StepReturnsStale(st, t) ==
    IF ~st.tasks[t].resolved
    THEN [st |-> Handler([st EXCEPT !.tasks[t].runs = @ + 1], t), ret |-> FALSE]
    ELSE [st |-> st, ret |-> TRUE]

\* ParserTask.step()
Step(st, t) ==
    IF ~st.tasks[t].resolved
    THEN LET s1 == Handler([st EXCEPT !.tasks[t].runs = @ + 1], t)
         IN [st |-> s1, ret |-> s1.tasks[t].resolved]
    ELSE [st |-> st, ret |-> st.tasks[t].resolved]

\* ------------------------------------------------------------- combinators
\* the name of the next Parser closure created by combinator kind for args:
\* value is the literal of str, parsers the array of choice and sequence
ParserName(st, kind, args) ==
    [kind |-> kind,
     value |-> IF kind = "str" THEN args[1] ELSE <<>>,
     parsers |-> IF kind = "str" THEN <<>> ELSE args[1],
     n |-> Cardinality({q \in DOMAIN st.parsers :
                          /\ q.kind = kind
                          /\ q.value = (IF kind = "str" THEN args[1] ELSE <<>>)
                          /\ q.parsers = (IF kind = "str" THEN <<>> ELSE args[1])}) + 1]

\* the outer memoize of str / choice / sequence: args is the argument list
Combinator(st, kind, args) ==
    LET found == MemoFind(st.memo[kind], args)
    IN IF found # <<>> THEN [st |-> st, ret |-> <<found[1].result>>]
       ELSE LET p == ParserName(st, kind, args)
            IN [st |-> [st EXCEPT !.parsers = @ @@ (p :> {}),
                                  !.memo[kind] = MemoPush(@, args, p)],
                ret |-> <<p>>]

\* ------------------------------------------------------------- the driver
State == [memo |-> memo, parsers |-> parsers, tasks |-> tasks, thrown |-> thrown]

\* the state of a fresh process: empty memo arrays, no object
Empty ==
    [memo |-> [str |-> {}, choice |-> {}, sequence |-> {}, choice2 |-> {}],
     parsers |-> <<>>, tasks |-> <<>>, thrown |-> FALSE]

InitFrom(st) ==
    /\ memo = st.memo
    /\ parsers = st.parsers
    /\ tasks = st.tasks
    /\ thrown = st.thrown

Set(st) ==
    /\ memo' = st.memo
    /\ parsers' = st.parsers
    /\ tasks' = st.tasks
    /\ thrown' = st.thrown

ParserLists == UNION {[1..n -> DOMAIN parsers] : n \in 0..MaxArity}

Init == InitFrom(Empty)

\* a call of a combinator by the driver; an uncaught TypeError has ended it
Build(kind, args) ==
    /\ ~thrown
    /\ LET r == Combinator(State, kind, args)
       IN /\ Cardinality(DOMAIN r.st.parsers) <= MaxParsers
          /\ Set(r.st)

CallStr(value) == Build("str", <<value>>)

CallChoice(ps) == Build("choice", <<ps>>)

CallSequence(ps) == Build("sequence", <<ps>>)

\* const task = parser(input), with at most max task objects in the heap
Parse(p, input, max) ==
    /\ ~thrown
    /\ LET r == Call(State, p, input)
       IN /\ Cardinality(DOMAIN r.st.tasks) <= max
          /\ Set(r.st)

CallParser(p, input) == Parse(p, input, MaxTasks)

\* done = task.step()
CallStep(t) ==
    /\ ~thrown
    /\ LET r == Step(State, t)
       IN /\ Cardinality(DOMAIN r.st.tasks) <= MaxTasks
          /\ Set(r.st)

Next ==
    \/ \E value \in Literals : CallStr(value)
    \/ \E ps \in ParserLists : CallChoice(ps)
    \/ \E ps \in ParserLists : CallSequence(ps)
    \/ \E p \in DOMAIN parsers, input \in Inputs : CallParser(p, input)
    \/ \E t \in DOMAIN tasks : CallStep(t)

Spec == Init /\ [][Next]_vars

\* ------------------------------------------------------------- str alone
\* One str parser of any literal over Chars, parsed on any inputs over Chars.
StrLiterals == Strs(Chars, MaxLen)

StrInputs == Strs(Chars, MaxLen)

InitStr == \E value \in StrLiterals : InitFrom(Combinator(Empty, "str", <<value>>).st)

CallStrParser(p, input) == Parse(p, input, MaxStrTasks)

NextStr ==
    \/ \E p \in DOMAIN parsers, input \in StrInputs : CallStrParser(p, input)
    \/ \E t \in DOMAIN tasks : CallStep(t)

SpecStr == InitStr /\ [][NextStr]_vars

\* ------------------------------------------------------------- a sequence of literals
\* sequence([str(l1), ..., str(ln)]) for the first n letters, n in 1..MaxSeq,
\* parsed on the first MaxSeq + 1 letters and on their suffixes: with
\* MaxSeq = 3 and n = 3 this is sequence([str("a"), str("b"), str("c")]) on "abcd".
Letters == <<"a", "b", "c", "d", "e", "f">>

ScenarioInput == SubSeq(Letters, 1, MaxSeq + 1)

Suffixes(input) == {Substr(input, k) : k \in 0..Len(input)}

RECURSIVE BuildStrs(_, _, _)
\* str(l1), ..., str(ln) in argument order: ret lists the parsers returned
BuildStrs(st, n, k) ==
    IF k > n THEN [st |-> st, ret |-> <<>>]
    ELSE LET c == Combinator(st, "str", <<SubSeq(Letters, k, k)>>)
             r == BuildStrs(c.st, n, k + 1)
         IN [st |-> r.st, ret |-> c.ret \o r.ret]

BuildSeq(n) ==
    LET r == BuildStrs(Empty, n, 1)
    IN Combinator(r.st, "sequence", <<r.ret>>).st

InitSeq == \E n \in 1..MaxSeq : InitFrom(BuildSeq(n))

CallSeqParser(p, input) == Parse(p, input, MaxTasks)

NextSeq ==
    \/ \E p \in DOMAIN parsers, input \in Suffixes(ScenarioInput) :
          CallSeqParser(p, input)
    \/ \E t \in DOMAIN tasks : CallStep(t)

SpecSeq == InitSeq /\ [][NextSeq]_vars

\* ------------------------------------------------------------- two sequences under a choice
\* choice([sequence([str("1"), str("2")]), sequence([str("3"), str("4")])]),
\* built once; the driver requests its task on "12", "34" and "56" in any
\* order and steps any task that exists, in any interleaving.
BuildGrammar ==
    LET d1 == Combinator(Empty, "str", << <<"1">> >>)
        d2 == Combinator(d1.st, "str", << <<"2">> >>)
        s12 == Combinator(d2.st, "sequence", <<d1.ret \o d2.ret>>)
        d3 == Combinator(s12.st, "str", << <<"3">> >>)
        d4 == Combinator(d3.st, "str", << <<"4">> >>)
        s34 == Combinator(d4.st, "sequence", <<d3.ret \o d4.ret>>)
    IN Combinator(s34.st, "choice", <<s12.ret \o s34.ret>>)

GrammarParser == BuildGrammar.ret[1]

GrammarInputs == {<<"1", "2">>, <<"3", "4">>, <<"5", "6">>}

InitGrammar == InitFrom(BuildGrammar.st)

CallGrammarParser(input) == Parse(GrammarParser, input, MaxGrammarTasks)

\* done = task.step(), on any task of the grammar
CallGrammarStep(t) ==
    /\ ~thrown
    /\ LET r == Step(State, t)
       IN /\ Cardinality(DOMAIN r.st.tasks) <= MaxGrammarTasks
          /\ Set(r.st)

NextGrammar ==
    \/ \E input \in GrammarInputs : CallGrammarParser(input)
    \/ \E t \in DOMAIN tasks : CallGrammarStep(t)

SpecGrammar == InitGrammar /\ [][NextGrammar]_vars

\* ------------------------------------------------------------- the driver's loop
\* The same parser driven as app() drives it: parse the input, then parse what
\* the Success left over, until a Failure.  On "1234" the rounds are on
\* "1234", "34" and ""; the rounds may be requested and stepped in any order.
LoopInputs == {<<"1", "2", "3", "4">>, <<"3", "4">>, <<>>}

CallLoopParser(input) == Parse(GrammarParser, input, MaxGrammarTasks)

NextLoop ==
    \/ \E input \in LoopInputs : CallLoopParser(input)
    \/ \E t \in DOMAIN tasks : CallGrammarStep(t)

SpecLoop == InitGrammar /\ [][NextLoop]_vars

\* ------------------------------------------------------------- the id-keyed registry and regex
\* The engine with Parser objects registered by id.  Parser.parserMemo is
\* kept in memo as a function id |-> Parser, a Parser's own memo in parsers
\* as a function input |-> ParserTask.  A Parser is named by its id, the
\* handler it was constructed with and the number n of Parsers constructed
\* so far for that id and handler.
\* A RegExp is [anchored, text]: the literal text, after ^ when anchored, no
\* flags; its source is what the id is made of.
RegexSource(pattern) ==
    (IF pattern.anchored THEN <<"^">> ELSE <<>>) \o pattern.text

RegexId(pattern) == <<"r", "e", "g", "{">> \o RegexSource(pattern) \o <<"}">>

\* the positions at which the pattern matches the input
MatchPositions(pattern, input) ==
    {k \in 0..Len(input) :
        /\ k + Len(pattern.text) <= Len(input)
        /\ SubSeq(input, k + 1, k + Len(pattern.text)) = pattern.text
        /\ pattern.anchored => k = 0}

\* pattern.exec(input): <<the match array>> of the leftmost match, with
\* match[0] as text and its position as index, or <<>> for null
Exec(pattern, input) ==
    LET hits == MatchPositions(pattern, input)
    IN IF hits = {} THEN <<>>
       ELSE <<[text |-> pattern.text,
               index |-> CHOOSE k \in hits : \A j \in hits : k <= j]>>

\* Parser.create(id, handler)
ParserCreate(st, id, handler) ==
    IF id \in DOMAIN st.memo THEN [st |-> st, ret |-> <<st.memo[id]>>]
    ELSE LET p == [id |-> id, handler |-> handler,
                   n |-> Cardinality({q \in DOMAIN st.parsers :
                                        q.id = id /\ q.handler = handler}) + 1]
         IN [st |-> [st EXCEPT !.memo = @ @@ (id :> p),
                               !.parsers = @ @@ (p :> <<>>)],
             ret |-> <<p>>]

\* regex(pattern)
regex(st, pattern) ==
    ParserCreate(st, RegexId(pattern), [kind |-> "regex", pattern |-> pattern])

\* parser.parse(input); the handler of a regex Parser creates a fresh task
ParserParse(st, p, input) ==
    IF input \in DOMAIN st.parsers[p]
    THEN [st |-> st, ret |-> <<st.parsers[p][input]>>]
    ELSE LET a == Alloc(st, p, input, NewTask(<<>>, <<>>))
         IN [st |-> [a.st EXCEPT !.parsers[p] = @ @@ (input :> a.ret[1])],
             ret |-> a.ret]

\* the task handler of regex
RegexHandler(st, t) ==
    LET match == Exec(t.p.handler.pattern, t.input)
    IN IF match = <<>> THEN failureFn(st, t)
       ELSE successFn(st, t, match[1], Substr(t.input, Len(match[1].text)))

\* ParserTask.step() of a regex task
RegexStep(st, t) ==
    IF ~st.tasks[t].resolved
    THEN LET s1 == RegexHandler([st EXCEPT !.tasks[t].runs = @ + 1], t)
         IN [st |-> s1, ret |-> s1.tasks[t].resolved]
    ELSE [st |-> st, ret |-> st.tasks[t].resolved]

\* the driver builds regex parsers of anchored and unanchored one-letter
\* patterns and parses every input over Chars with them
RegexPatterns == [anchored : BOOLEAN, text : Literals]

InitRegex == InitFrom([memo |-> <<>>, parsers |-> <<>>, tasks |-> <<>>, thrown |-> FALSE])

CallRegex(pattern) ==
    LET r == regex(State, pattern)
    IN /\ Cardinality(DOMAIN r.st.parsers) <= MaxRegexParsers
       /\ Set(r.st)

CallRegexParse(p, input) ==
    LET r == ParserParse(State, p, input)
    IN /\ Cardinality(DOMAIN r.st.tasks) <= MaxRegexTasks
       /\ Set(r.st)

CallRegexStep(t) == Set(RegexStep(State, t).st)

NextRegex ==
    \/ \E pattern \in RegexPatterns : CallRegex(pattern)
    \/ \E p \in DOMAIN parsers, input \in StrInputs : CallRegexParse(p, input)
    \/ \E t \in DOMAIN tasks : CallRegexStep(t)

SpecRegex == InitRegex /\ [][NextRegex]_vars

\* ------------------------------------------------------------- the earlier engine
\* The driver of Spec over the engine whose choice returns early: it builds
\* str, choice2 and sequence parsers, requests tasks and steps them.
CallChoice2(ps) == Build("choice2", <<ps>>)

NextEarly ==
    \/ \E value \in Literals : CallStr(value)
    \/ \E ps \in ParserLists : CallChoice2(ps)
    \/ \E ps \in ParserLists : CallSequence(ps)
    \/ \E p \in DOMAIN parsers, input \in Inputs : CallParser(p, input)
    \/ \E t \in DOMAIN tasks : CallStep(t)

SpecEarly == Init /\ [][NextEarly]_vars

\* ------------------------------------------------------------- ids in the registry
\* str, sequence and choice of the engine with the id-keyed registry: each
\* builds its id from its arguments and hands Parser.create the id and a
\* handler closing over the arguments (kept as kind, value, parsers).
StrId(value) == <<"s", "t", "r", "{">> \o value \o <<"}">>

RECURSIVE Join(_)
\* parsers.map(i => i.id).join(',')
Join(ps) ==
    IF ps = <<>> THEN <<>>
    ELSE IF Len(ps) = 1 THEN ps[1].id
    ELSE ps[1].id \o <<",">> \o Join(Tail(ps))

SeqId(ps) == <<"s", "e", "q", "{">> \o Join(ps) \o <<"}">>

AltId(ps) == <<"a", "l", "t", "{">> \o Join(ps) \o <<"}">>

RegistryStr(st, value) ==
    ParserCreate(st, StrId(value),
                 [kind |-> "str", value |-> value, parsers |-> <<>>])

RegistrySequence(st, ps) ==
    ParserCreate(st, SeqId(ps),
                 [kind |-> "sequence", value |-> <<>>, parsers |-> ps])

RegistryChoice(st, ps) ==
    ParserCreate(st, AltId(ps),
                 [kind |-> "choice", value |-> <<>>, parsers |-> ps])

\* the literals the driver passes to str: two letters, and a literal made of
\* the characters the ids are built with
RegistryLiterals ==
    {<<"a">>, <<"b">>, <<"a", "}", ",", "s", "t", "r", "{", "b">>}

Register(r) ==
    /\ Cardinality(DOMAIN r.st.parsers) <= MaxRegistryParsers
    /\ Set(r.st)

CallRegistryStr(value) == Register(RegistryStr(State, value))

CallRegistrySequence(ps) == Register(RegistrySequence(State, ps))

CallRegistryChoice(ps) == Register(RegistryChoice(State, ps))

NextRegistry ==
    \/ \E value \in RegistryLiterals : CallRegistryStr(value)
    \/ \E ps \in ParserLists : CallRegistrySequence(ps)
    \/ \E ps \in ParserLists : CallRegistryChoice(ps)

SpecRegistry == InitRegex /\ [][NextRegistry]_vars

\* ============================================================= claims
\* the arguments a parser was built from
ArgsOf(p) == IF p.kind = "str" THEN <<p.value>> ELSE <<p.parsers>>

\* the first task object created for parser p on input
FirstTask(p, input) == [p |-> p, input |-> input, n |-> 1]

IsDone(p, input) ==
    /\ FirstTask(p, input) \in DOMAIN tasks
    /\ tasks[FirstTask(p, input)].resolved

ResultOf(p, input) == tasks[FirstTask(p, input)].result

\* C1: a task that is resolved stays resolved, with the same result, across
\* every call the driver makes afterwards (on it or on any other object).
C1_ResolvedIsFrozen ==
    [][\A t \in DOMAIN tasks :
          tasks[t].resolved =>
              /\ t \in DOMAIN tasks'
              /\ tasks'[t].resolved
              /\ tasks'[t].result = tasks[t].result]_vars

\* a choice ran twice after its str alternative resolved in the first run:
\* the second run called step() on that resolved task
C1_Witness ==
    \E u \in DOMAIN tasks :
        /\ u.p.kind = "choice"
        /\ tasks[u].runs >= 2
        /\ \E k \in 1..Len(tasks[u].tasks) :
              /\ tasks[u].tasks[k].p.kind = "str"
              /\ tasks[tasks[u].tasks[k]].resolved
              /\ tasks[tasks[u].tasks[k]].runs = 1

\* C2: step() on a resolved task returns true and changes nothing: no handler
\* runs (every runs counter is unchanged), no task is stepped or created, no
\* task and no memo table changes; so repeating it changes nothing either.
C2_StepResolvedIsNoOp ==
    \A t \in DOMAIN tasks :
        tasks[t].resolved => Step(State, t) = [st |-> State, ret |-> TRUE]

\* a resolved sequence that pushed two values: running its handler again
\* would push a third and step its last child
C2_Witness ==
    \E t \in DOMAIN tasks :
        /\ t.p.kind = "sequence"
        /\ tasks[t].resolved
        /\ tasks[t].result.success
        /\ Len(tasks[t].acc) = 2
        /\ \E u \in DOMAIN tasks : u # t /\ ~tasks[u].resolved

\* "I starts with L" and "I with the prefix L removed", stated on the strings
IsPrefix(L, I) == \E rest \in Strs(Chars, Len(I)) : I = L \o rest

WithoutPrefix(L, I) == CHOOSE rest \in Strs(Chars, Len(I)) : I = L \o rest

\* C3: the task of str(L) on I resolves in its first step() call, which
\* returns true: to Success(L, I without the prefix L) when I starts with L,
\* to Failure otherwise; it is never pending after a call.
C3_StrResolvesInOneStep ==
    \A t \in DOMAIN tasks :
        t.p.kind = "str" =>
            /\ tasks[t].runs <= 1
            /\ tasks[t].resolved <=> tasks[t].runs = 1
            /\ (~tasks[t].resolved /\ ~thrown) => Step(State, t).ret
            /\ tasks[t].resolved =>
                  tasks[t].result =
                      IF IsPrefix(t.p.value, t.input)
                      THEN Success([str |-> t.p.value],
                                   WithoutPrefix(t.p.value, t.input))
                      ELSE failure

\* one str task resolved to a Success that left input over, another resolved
\* to Failure on an input as long as the literal
C3_Witness ==
    /\ \E t \in DOMAIN tasks :
          /\ tasks[t].resolved
          /\ tasks[t].result.success
          /\ t.p.value # <<>>
          /\ tasks[t].result.remaining # <<>>
    /\ \E t \in DOMAIN tasks :
          /\ tasks[t].resolved
          /\ ~tasks[t].result.success
          /\ Len(t.input) >= Len(t.p.value)

RECURSIVE SeqOutcome(_, _, _, _)
\* what the children say of sequence(ps) from its k-th parser on: each parser
\* is looked up on the remaining of the one before it.  Undefined when the
\* child that decides has no resolved task.
SeqOutcome(ps, k, input, values) ==
    IF k > Len(ps) THEN Success([list |-> values], input)
    ELSE IF ~IsDone(ps[k], input) THEN Undefined
    ELSE IF ~ResultOf(ps[k], input).success THEN failure
    ELSE SeqOutcome(ps, k + 1, ResultOf(ps[k], input).remaining,
                    Append(values, ResultOf(ps[k], input).result))

\* C4: a resolved task of sequence([p1..pn]), n >= 1, on I is a Success iff
\* p1 succeeded on I and each p(i+1) succeeded on the remaining of pi, its
\* value being the children's values in declaration order and its remaining
\* that of pn; it is a Failure iff one pi in that chain failed on its input.
C4_SequenceResult ==
    \A t \in DOMAIN tasks :
        (t.p.kind = "sequence" /\ tasks[t].resolved) =>
            /\ Len(t.p.parsers) >= 1
            /\ tasks[t].result = SeqOutcome(t.p.parsers, 1, t.input, <<>>)

\* a sequence of two parsers resolved to a Success that consumed input twice
C4_Witness ==
    \E t \in DOMAIN tasks :
        /\ t.p.kind = "sequence"
        /\ Len(t.p.parsers) = 2
        /\ tasks[t].resolved
        /\ tasks[t].result.success
        /\ Len(tasks[t].result.result.list) = 2
        /\ Len(tasks[t].result.remaining) = Len(t.input) - 2

\* the alternatives of choice task t that have resolved to a Success
Succeeded(t) ==
    {k \in 1..Len(t.p.parsers) :
        IsDone(t.p.parsers[k], t.input) /\ ResultOf(t.p.parsers[k], t.input).success}

\* C5: a resolved task of choice([p1..pn]) on I is a Success iff some pi
\* succeeded on I, and then it carries the result of the earliest-declared
\* such pi; it is a Failure iff every pi failed on I.
C5_ChoiceResult ==
    \A t \in DOMAIN tasks :
        (t.p.kind = "choice" /\ tasks[t].resolved) =>
            IF Succeeded(t) = {}
            THEN /\ tasks[t].result = failure
                 /\ \A k \in 1..Len(t.p.parsers) : IsDone(t.p.parsers[k], t.input)
            ELSE LET k == CHOOSE k \in Succeeded(t) : \A j \in Succeeded(t) : k <= j
                 IN tasks[t].result = ResultOf(t.p.parsers[k], t.input)

\* a choice took its first alternative, which needed two steps, although its
\* second alternative had resolved in one step to a different Success
C5_Witness ==
    \E t \in DOMAIN tasks :
        /\ t.p.kind = "choice"
        /\ tasks[t].resolved
        /\ Succeeded(t) = {1, 2}
        /\ tasks[FirstTask(t.p.parsers[1], t.input)].runs = 2
        /\ tasks[FirstTask(t.p.parsers[2], t.input)].runs = 1
        /\ ResultOf(t.p.parsers[1], t.input) # ResultOf(t.p.parsers[2], t.input)
        /\ tasks[t].result = ResultOf(t.p.parsers[1], t.input)

\* C6: whatever was called before, calling a combinator again with the
\* arguments of any existing Parser returns that very Parser and creates
\* nothing; no memo array holds two entries with deeply-equal arguments and
\* no second Parser exists for the same arguments.
C6_ParserSharing ==
    /\ \A p \in DOMAIN parsers :
          /\ p.n = 1
          /\ Combinator(State, p.kind, ArgsOf(p)) = [st |-> State, ret |-> <<p>>]
    /\ \A kind \in {"str", "choice", "sequence"} :
          \A e, f \in memo[kind] : e.args = f.args => e = f

\* a sequence and a choice built from lists of the same child parsers
C6_Witness ==
    \E p, q \in DOMAIN parsers :
        /\ p.kind = "sequence"
        /\ q.kind = "choice"
        /\ Len(p.parsers) = 2
        /\ p.parsers = q.parsers

\* C7: whatever happened since a task was created, and whether it is
\* unresolved, partially advanced or resolved, requesting its parser on its
\* input returns that very task and creates nothing.
C7_TaskSharing ==
    /\ \A t \in DOMAIN tasks :
          /\ t.n = 1
          /\ Call(State, t.p, t.input) = [st |-> State, ret |-> <<t>>]
    /\ \A p \in DOMAIN parsers :
          \A e, f \in parsers[p] : e.args = f.args => e = f

\* three tasks at once: never stepped, advanced but pending, resolved
C7_Witness ==
    /\ \E t \in DOMAIN tasks : ~tasks[t].resolved /\ tasks[t].runs = 0
    /\ \E t \in DOMAIN tasks : ~tasks[t].resolved /\ tasks[t].runs >= 1
    /\ \E t \in DOMAIN tasks : tasks[t].resolved

\* C8: requesting the task of sequence([]) on any input and stepping it once
\* yields Success([], input), without a crash at creation or at the step.
C8_EmptySequenceSucceeds ==
    \A p \in DOMAIN parsers :
        (p.kind = "sequence" /\ p.parsers = <<>> /\ ~thrown) =>
            \A input \in Inputs :
                LET c == Call(State, p, input)
                IN /\ ~c.st.thrown
                   /\ Step(c.st, c.ret[1]).ret
                   /\ Step(c.st, c.ret[1]).st.tasks[c.ret[1]].result =
                          Success([list |-> <<>>], input)

\* C9: the task of choice([]) resolves to Failure in its first step() call.
C9_EmptyChoiceFails ==
    \A t \in DOMAIN tasks :
        (t.p.kind = "choice" /\ t.p.parsers = <<>>) =>
            /\ tasks[t].runs <= 1
            /\ tasks[t].resolved <=> tasks[t].runs = 1
            /\ (~tasks[t].resolved /\ ~thrown) => Step(State, t).ret
            /\ tasks[t].resolved => tasks[t].result = failure

C9_Witness ==
    \E t \in DOMAIN tasks :
        /\ t.p.kind = "choice"
        /\ t.p.parsers = <<>>
        /\ tasks[t].resolved
        /\ tasks[t].runs = 1

\* C10: a task of sequence([p1..pn]) of str parsers that resolves to Success
\* does so exactly in its n-th step() call: it is unresolved while it has had
\* fewer calls and no call beyond the n-th ever runs its handler, whether or
\* not its child tasks were resolved by someone else beforehand.
C10_SequenceOfStrSteps ==
    \A t \in DOMAIN tasks :
        (t.p.kind = "sequence" /\ \A k \in 1..Len(t.p.parsers) :
                                      t.p.parsers[k].kind = "str") =>
            /\ tasks[t].runs <= Len(t.p.parsers)
            /\ (tasks[t].resolved /\ tasks[t].result.success) =>
                  tasks[t].runs = Len(t.p.parsers)
            /\ tasks[t].runs = Len(t.p.parsers) => tasks[t].resolved
            /\ (SeqOutcome(t.p.parsers, 1, t.input, <<>>) # failure
                /\ tasks[t].runs < Len(t.p.parsers)) => ~tasks[t].resolved

\* the longest sequence resolved to Success over the whole scenario input in
\* exactly MaxSeq handler runs (Scenario D when MaxSeq = 3)
C10_Witness ==
    \E t \in DOMAIN tasks :
        /\ t.p.kind = "sequence"
        /\ Len(t.p.parsers) = MaxSeq
        /\ t.input = ScenarioInput
        /\ tasks[t].runs = MaxSeq
        /\ tasks[t].result = Success([list |-> [k \in 1..MaxSeq |->
                                                   [str |-> SubSeq(Letters, k, k)]]],
                                     SubSeq(Letters, MaxSeq + 1, MaxSeq + 1))

\* what Scenarios A, B and C expect of the grammar on each input
Expected(input) ==
    IF input = <<"1", "2">>
    THEN Success([list |-> <<[str |-> <<"1">>], [str |-> <<"2">>]>>], <<>>)
    ELSE IF input = <<"3", "4">>
    THEN Success([list |-> <<[str |-> <<"3">>], [str |-> <<"4">>]>>], <<>>)
    ELSE failure

\* C11: the task of choice([sequence([str 1, str 2]), sequence([str 3, str 4])])
\* resolves within two step() calls, to Success(["1","2"], "") on "12", to
\* Success(["3","4"], "") on "34" and to Failure on "56", whatever the order
\* in which the three inputs are requested and stepped; nothing throws.
C11_ScenariosABC ==
    /\ ~thrown
    /\ \A t \in DOMAIN tasks :
          t.p = GrammarParser =>
              /\ tasks[t].runs <= 2
              /\ tasks[t].runs = 2 => tasks[t].resolved
              /\ ~tasks[t].resolved =>
                    LET r == Step(State, t)
                    IN r.ret => r.st.tasks[t].result = Expected(t.input)
              /\ tasks[t].resolved => tasks[t].result = Expected(t.input)

\* the three inputs have all been parsed to the end, "12" in two calls
C11_Witness ==
    /\ \A input \in GrammarInputs :
          /\ IsDone(GrammarParser, input)
          /\ ResultOf(GrammarParser, input) = Expected(input)
    /\ tasks[FirstTask(GrammarParser, <<"1", "2">>)].runs = 2
    /\ tasks[FirstTask(GrammarParser, <<"5", "6">>)].runs = 1

\* "S is what is left of I after dropping some of its first characters"
IsSuffix(S, I) ==
    /\ Len(S) <= Len(I)
    /\ \A k \in 1..Len(S) : S[k] = I[Len(I) - Len(S) + k]

\* C12: every task that has resolved to Success has a remaining that is a
\* suffix of the input the task was created for.
C12_RemainingIsSuffix ==
    \A t \in DOMAIN tasks :
        (tasks[t].resolved /\ tasks[t].result.success) =>
            IsSuffix(tasks[t].result.remaining, t.input)

\* a str, a sequence and a choice task have each resolved to a Success that
\* left a non-empty, proper suffix of their input
C12_Witness ==
    \A kind \in {"str", "sequence", "choice"} :
        \E t \in DOMAIN tasks :
            /\ t.p.kind = kind
            /\ tasks[t].resolved
            /\ tasks[t].result.success
            /\ tasks[t].result.remaining # <<>>
            /\ tasks[t].result.remaining # t.input

\* C13: a regex task that resolves to Success on I matched a prefix of I and
\* its remaining is I without that prefix; when the pattern does not match
\* at position 0 of I the task resolves to Failure.
C13_RegexAnchored ==
    \A t \in DOMAIN tasks :
        tasks[t].resolved =>
            IF IsPrefix(t.p.handler.pattern.text, t.input)
            THEN /\ tasks[t].result.success
                 /\ tasks[t].result.result.text = t.p.handler.pattern.text
                 /\ tasks[t].result.result.index = 0
                 /\ tasks[t].result.remaining =
                        WithoutPrefix(t.p.handler.pattern.text, t.input)
            ELSE tasks[t].result = failure

\* the alternatives of choice task t that are resolved to a Success in st
SucceededIn(st, t) ==
    {k \in 1..Len(st.tasks[t].tasks) :
        /\ st.tasks[st.tasks[t].tasks[k]].resolved
        /\ st.tasks[st.tasks[t].tasks[k]].result.success}

\* C14: a step() call on an unresolved choice task after which some child is
\* resolved to a Success resolves the choice in that same call, to the
\* Success of the earliest-declared such child, even when other alternatives
\* are still unresolved.
C14_ChoiceResolvesOnFirstSuccess ==
    \A t \in DOMAIN tasks :
        (t.p.kind = "choice" /\ ~tasks[t].resolved /\ ~thrown) =>
            LET r == Step(State, t)
                ok == SucceededIn(r.st, t)
            IN (~r.st.thrown /\ ok # {}) =>
                  /\ r.ret
                  /\ r.st.tasks[t].result =
                        r.st.tasks[tasks[t].tasks[
                            CHOOSE k \in ok : \A j \in ok : k <= j]].result

\* C15: a step() call on an unresolved choice task runs the handler of every
\* child task that was unresolved when the call began exactly once, and the
\* handler of no child that was already resolved, whatever the list of
\* alternatives (the same parser twice, one alternative inside another).
C15_ChoiceRoundRobin ==
    \A t \in DOMAIN tasks :
        (t.p.kind = "choice" /\ ~tasks[t].resolved /\ ~thrown) =>
            LET r == Step(State, t)
            IN ~r.st.thrown =>
                  \A k \in 1..Len(tasks[t].tasks) :
                      r.st.tasks[tasks[t].tasks[k]].runs =
                          tasks[tasks[t].tasks[k]].runs +
                              (IF tasks[tasks[t].tasks[k]].resolved THEN 0 ELSE 1)

\* the task objects that composite task u holds: the children of a choice,
\* the active child of a sequence
Held(u) ==
    {tasks[u].tasks[k] : k \in 1..Len(tasks[u].tasks)} \cup
    {tasks[u].task[k] : k \in 1..Len(tasks[u].task)}

\* C16: for a str parser P and an input I there is one task object, the one
\* every composite that refers to (P, I) holds; its handler has run at most
\* once in total whatever was stepped and in which order, and once it is
\* resolved a step() from any holder returns true with the state, the result
\* included, left as it is.
C16_WorkSharing ==
    /\ \A t \in DOMAIN tasks :
          t.p.kind = "str" =>
              /\ t.n = 1
              /\ tasks[t].runs <= 1
              /\ tasks[t].resolved =>
                    /\ tasks[t].runs = 1
                    /\ Step(State, t) = [st |-> State, ret |-> TRUE]
    /\ \A u \in DOMAIN tasks : Held(u) \subseteq DOMAIN tasks

\* a str task held by a sequence and by a choice that were both stepped: its
\* handler ran once and both composites resolved with its result
C16_Witness ==
    \E t, u, v \in DOMAIN tasks :
        /\ t.p.kind = "str"
        /\ u.p.kind = "sequence"
        /\ v.p.kind = "choice"
        /\ t \in Held(u)
        /\ t \in Held(v)
        /\ tasks[t].runs = 1
        /\ tasks[u].runs = 1
        /\ tasks[v].runs = 1
        /\ tasks[u].resolved
        /\ tasks[v].resolved
        /\ tasks[t].result.success
        /\ tasks[v].result = tasks[t].result
        /\ tasks[u].result.success
        /\ tasks[u].result.remaining = tasks[t].result.remaining

\* C17: a step() call on a sequence task in which its active child is found
\* resolved to a Failure resolves the sequence to Failure in that call and
\* does nothing beyond stepping that child: no task is requested or stepped
\* for a later parser of the list.  A sequence resolved to Failure still holds
\* the child that failed, and a later step() on it does nothing at all.
C17_SequenceShortCircuit ==
    \A t \in DOMAIN tasks :
        t.p.kind = "sequence" =>
            /\ (~tasks[t].resolved /\ ~thrown) =>
                  LET child == tasks[t].task[1]
                      c == Step(State, child)
                      r == Step(State, t)
                  IN (~c.st.thrown /\ c.ret /\ ~c.st.tasks[child].result.success) =>
                        /\ r.ret
                        /\ r.st.tasks[t].result = failure
                        /\ r.st.memo = c.st.memo
                        /\ r.st.parsers = c.st.parsers
                        /\ DOMAIN r.st.tasks = DOMAIN c.st.tasks
                        /\ \A u \in DOMAIN c.st.tasks \ {t} :
                              r.st.tasks[u] = c.st.tasks[u]
                        /\ r.st.tasks[t].task = tasks[t].task
                        /\ r.st.tasks[t].i = tasks[t].i
            /\ (tasks[t].resolved /\ ~tasks[t].result.success) =>
                  /\ tasks[t].task[1].p = t.p.parsers[tasks[t].i + 1]
                  /\ tasks[tasks[t].task[1]].result = failure
                  /\ Len(tasks[t].acc) = tasks[t].i
                  /\ Step(State, t).st = State

\* a sequence of two parsers failed on its first child, and no task exists
\* for its second parser on any input
C17_Witness ==
    \E t \in DOMAIN tasks :
        /\ t.p.kind = "sequence"
        /\ Len(t.p.parsers) = 2
        /\ tasks[t].resolved
        /\ tasks[t].result = failure
        /\ tasks[t].i = 0
        /\ t.input # <<>>
        /\ \A u \in DOMAIN tasks : u.p # t.p.parsers[2]

RECURSIVE SeqCursor(_, _, _)
\* the input sequence(ps) hands to its (k+1)-th parser: the input itself for
\* the first, the remaining of the k-th parser's Success after that
SeqCursor(ps, k, input) ==
    IF k = 0 THEN input
    ELSE ResultOf(ps[k], SeqCursor(ps, k - 1, input)).remaining

\* the values of the first k parsers of sequence(ps), in declaration order
SeqValues(ps, k, input) ==
    [j \in 1..k |-> ResultOf(ps[j], SeqCursor(ps, j - 1, input)).result]

\* C18: a sequence task works through its parsers left to right.  At every
\* moment it holds exactly one active child, the task of p(k) on the
\* remaining of p(k-1) (on the input for k = 1); p1..p(k-1) are resolved to
\* Success and the accumulator holds their values in order (and that of pn
\* too once the sequence has succeeded).  A step() of the sequence steps
\* nothing but its active child; it requests a task only when that child ends
\* the call resolved to Success and is not the last: the task of the next
\* parser on exactly the child's remaining, which becomes the active child
\* and is not stepped in that call.
C18_SequenceOrdering ==
    \A t \in DOMAIN tasks :
        t.p.kind = "sequence" =>
            LET ps == t.p.parsers
                i == tasks[t].i
                succeeded == tasks[t].resolved /\ tasks[t].result.success
            IN /\ Len(tasks[t].task) = 1
               /\ i + 1 <= Len(ps)
               /\ \A j \in 1..i :
                     /\ IsDone(ps[j], SeqCursor(ps, j - 1, t.input))
                     /\ ResultOf(ps[j], SeqCursor(ps, j - 1, t.input)).success
               /\ tasks[t].task[1] = FirstTask(ps[i + 1], SeqCursor(ps, i, t.input))
               /\ tasks[t].task[1] \in DOMAIN tasks
               /\ tasks[t].acc =
                     SeqValues(ps, IF succeeded THEN i + 1 ELSE i, t.input)
               /\ (~tasks[t].resolved /\ ~thrown) =>
                     LET child == tasks[t].task[1]
                         c == Step(State, child)
                         r == Step(State, t)
                         advance == /\ c.ret
                                    /\ c.st.tasks[child].result.success
                                    /\ i + 1 < Len(ps)
                     IN ~r.st.thrown =>
                           /\ \A u \in DOMAIN c.st.tasks \ {t} :
                                 r.st.tasks[u] = c.st.tasks[u]
                           /\ \A u \in DOMAIN r.st.tasks \ DOMAIN c.st.tasks :
                                 advance /\ r.st.tasks[u].runs = 0
                           /\ IF advance
                              THEN r.st.tasks[t].task =
                                       <<FirstTask(ps[i + 2],
                                                   c.st.tasks[child].result.remaining)>>
                              ELSE /\ r.st.tasks[t].task = tasks[t].task
                                   /\ r.st.tasks[t].i = i

\* C19: a choice task holds, from its creation on, one task per alternative:
\* the task of pi on the choice's own input, for every i.  Creating the task
\* of a choice parser steps nothing: every task that existed is left exactly
\* as it was, and every task the creation adds, the choice task and those of
\* its alternatives included, is unresolved with a handler that never ran.
C19_ChoiceEagerConstruction ==
    /\ \A t \in DOMAIN tasks :
          t.p.kind = "choice" =>
              /\ Len(tasks[t].tasks) = Len(t.p.parsers)
              /\ \A k \in 1..Len(t.p.parsers) :
                    /\ tasks[t].tasks[k] = FirstTask(t.p.parsers[k], t.input)
                    /\ tasks[t].tasks[k] \in DOMAIN tasks
    /\ \A p \in DOMAIN parsers, input \in Inputs :
          (p.kind = "choice" /\ ~thrown) =>
              LET c == Call(State, p, input)
              IN ~c.st.thrown =>
                    /\ c.ret[1] \in DOMAIN c.st.tasks
                    /\ \A k \in 1..Len(p.parsers) :
                          FirstTask(p.parsers[k], input) \in DOMAIN c.st.tasks
                    /\ \A u \in DOMAIN tasks : c.st.tasks[u] = tasks[u]
                    /\ \A u \in DOMAIN c.st.tasks \ DOMAIN tasks :
                          /\ ~c.st.tasks[u].resolved
                          /\ c.st.tasks[u].runs = 0
                          /\ c.st.tasks[u].result = Undefined

\* a choice task with two different alternatives was created while one of
\* them had a task already: that task is resolved, the other was created
\* along with the choice and nothing has stepped it or the choice
C19_Witness ==
    \E t \in DOMAIN tasks :
        /\ t.p.kind = "choice"
        /\ Len(t.p.parsers) = 2
        /\ t.p.parsers[1] # t.p.parsers[2]
        /\ tasks[t].runs = 0
        /\ tasks[tasks[t].tasks[1]].resolved
        /\ tasks[tasks[t].tasks[2]].runs = 0

\* C20: step() on an unresolved task runs that task's handler exactly once.
\* When the call returns, it returns the task's resolved flag as the handler
\* left it: true with a result stored (the handler called success or
\* failure), or false with the task still unresolved and without a result.
C20_StepInvokesHandlerOnce ==
    \A t \in DOMAIN tasks :
        (~tasks[t].resolved /\ ~thrown) =>
            LET r == Step(State, t)
            IN /\ tasks[t].result = Undefined
               /\ r.st.tasks[t].runs = tasks[t].runs + 1
               /\ ~r.st.thrown =>
                     /\ r.ret = r.st.tasks[t].resolved
                     /\ r.ret <=> r.st.tasks[t].result # Undefined
                     /\ r.ret => "success" \in DOMAIN r.st.tasks[t].result

\* ahead of a sequence task lie a step() that returns false and, after it,
\* one that returns true
C20_Witness ==
    \E t \in DOMAIN tasks :
        /\ ~tasks[t].resolved
        /\ ~thrown
        /\ ~Step(State, t).ret
        /\ ~Step(State, t).st.thrown
        /\ Step(Step(State, t).st, t).ret
        /\ Step(Step(State, t).st, t).st.tasks[t].runs = tasks[t].runs + 2

\* C21: for every task, done is true iff the task is resolved, and a result
\* (a Success or the Failure value) is stored iff the task is resolved.
C21_DoneIffResult ==
    \A t \in DOMAIN tasks :
        /\ done(State, t) <=> tasks[t].resolved
        /\ done(State, t) <=> tasks[t].result # Undefined
        /\ tasks[t].result # Undefined =>
              \/ tasks[t].result = failure
              \/ tasks[t].result = Success(tasks[t].result.result,
                                           tasks[t].result.remaining)

\* a task resolved to a Success, one resolved to the Failure value and one
\* that was stepped and is still pending, all at once
C21_Witness ==
    /\ \E t \in DOMAIN tasks : done(State, t) /\ tasks[t].result.success
    /\ \E t \in DOMAIN tasks : done(State, t) /\ tasks[t].result = failure
    /\ \E t \in DOMAIN tasks : ~done(State, t) /\ tasks[t].runs >= 1

\* C22: over its whole life a task has its success and failure callbacks
\* called at most once in total: never while it is unresolved, exactly once
\* when it is resolved, whoever stepped what and how often.
C22_CallbacksAtMostOnce ==
    \A t \in DOMAIN tasks :
        /\ tasks[t].calls <= 1
        /\ tasks[t].calls = 1 <=> tasks[t].resolved

\* a str task failed once and for all although a sequence and a choice that
\* both hold it were each stepped to their own Failure
C22_Witness ==
    \E t, u, v \in DOMAIN tasks :
        /\ t.p.kind = "str"
        /\ u.p.kind = "sequence"
        /\ v.p.kind = "choice"
        /\ t \in Held(u)
        /\ t \in Held(v)
        /\ tasks[t].calls = 1
        /\ tasks[t].result = failure
        /\ tasks[u].calls = 1
        /\ tasks[u].result = failure
        /\ tasks[v].calls = 1
        /\ tasks[v].result = failure

\* every entry of memo array m is an entry of m2, still the one find() returns
MemoKept(m, m2) ==
    /\ m \subseteq m2
    /\ \A e \in m : MemoFind(m2, e.args) = MemoFind(m, e.args)

\* what a returned call g(args) may have done to its memo array, m before and
\* m2 after: nothing on a hit, exactly one entry for args added on a miss
MemoCallEffect(m, m2, args) ==
    IF MemoMatches(m, args) # {} THEN m2 = m
    ELSE /\ MemoKept(m, m2)
         /\ Cardinality(m2) = Cardinality(m) + 1
         /\ Cardinality(MemoMatches(m2, args)) = 1

\* the argument lists the driver can call combinator kind with
ArgLists(kind) ==
    IF kind = "str" THEN {<<value>> : value \in Literals}
    ELSE {<<ps>> : ps \in ParserLists}

\* C23: both levels of memo arrays are append-only.  No call of the driver
\* removes or replaces an entry, so what find() returns for stored arguments
\* never changes.  A combinator call, and a parser call that returns, with
\* arguments deeply equal to a stored entry changes nothing at all; with new
\* arguments it computes once (one new Parser, one new task for that parser
\* and input) and adds exactly one entry to its own memo array.
C23_MemoAppendOnly ==
    /\ [][/\ \A kind \in {"str", "choice", "sequence"} :
                MemoKept(memo[kind], memo'[kind])
          /\ \A p \in DOMAIN parsers :
                /\ p \in DOMAIN parsers'
                /\ MemoKept(parsers[p], parsers'[p])]_vars
    /\ [](\A kind \in {"str", "choice", "sequence"} :
             \A args \in ArgLists(kind) :
                 LET r == Combinator(State, kind, args)
                 IN /\ MemoCallEffect(memo[kind], r.st.memo[kind], args)
                    /\ MemoMatches(memo[kind], args) # {} => r.st = State
                    /\ Cardinality(DOMAIN r.st.parsers) =
                          Cardinality(DOMAIN parsers) +
                              (IF MemoMatches(memo[kind], args) # {} THEN 0 ELSE 1))
    /\ [](\A p \in DOMAIN parsers, input \in Inputs :
             ~thrown =>
                 LET c == Call(State, p, input)
                 IN ~c.st.thrown =>
                       /\ MemoCallEffect(parsers[p], c.st.parsers[p], <<input>>)
                       /\ MemoMatches(parsers[p], <<input>>) # {} => c.st = State
                       /\ Cardinality({t \in DOMAIN c.st.tasks :
                                          t.p = p /\ t.input = input}) = 1)

\* a combinator memo array with two entries and a parser whose own memo array
\* holds two tasks
C23_Witness ==
    /\ \E kind \in {"str", "choice", "sequence"} : Cardinality(memo[kind]) >= 2
    /\ \E p \in DOMAIN parsers : Cardinality(parsers[p]) >= 2

RECURSIVE SeqCursorIn(_, _, _, _)
\* SeqCursor read off the tasks of state st
SeqCursorIn(st, ps, k, input) ==
    IF k = 0 THEN input
    ELSE st.tasks[FirstTask(ps[k], SeqCursorIn(st, ps, k - 1, input))].result.remaining

\* the handler runs of task u in state st, 0 for a task st does not have yet
RunsIn(st, u) == IF u \in DOMAIN st.tasks THEN st.tasks[u].runs ELSE 0

\* a task that differs between st and st2, or that st2 has and st has not
\* and that is no longer as a new task is
ChangedBetween(st, st2, u) ==
    IF u \in DOMAIN st.tasks THEN st2.tasks[u] # st.tasks[u]
    ELSE st2.tasks[u].runs > 0 \/ st2.tasks[u].resolved

\* the children composite task v held at some time of a call that took st
\* to st2: the alternatives of a choice; for a sequence the active child at
\* the start and every child it moved on to
HeldDuring(st, st2, v) ==
    IF v.p.kind = "choice"
    THEN {st2.tasks[v].tasks[k] : k \in 1..Len(st2.tasks[v].tasks)}
    ELSE IF v.p.kind = "sequence"
    THEN {FirstTask(v.p.parsers[j], SeqCursorIn(st2, v.p.parsers, j - 1, v.input)) :
             j \in ((IF v \in DOMAIN st.tasks THEN st.tasks[v].i ELSE 0) + 1)..
                   (IF st2.tasks[v].i + 1 <= Len(v.p.parsers)
                    THEN st2.tasks[v].i + 1 ELSE Len(v.p.parsers))}
    ELSE {}

\* C24: only step() changes the state of tasks.  Building a parser leaves
\* the tasks as they are; obtaining a task leaves every existing task as it
\* is and adds only unresolved tasks whose handlers never ran.  A step() on
\* task t changes a task only by running its handler, and only t itself or a
\* child held, at that time, by a task whose handler also ran in the call:
\* every task outside the subtree of t is left exactly as it was, so a task
\* that nobody steps stays as it is.
C24_OnlyStepChangesTasks ==
    /\ \A kind \in {"str", "choice", "sequence"} :
          \A args \in ArgLists(kind) :
              Combinator(State, kind, args).st.tasks = tasks
    /\ \A p \in DOMAIN parsers, input \in Inputs :
          ~thrown =>
              LET c == Call(State, p, input)
              IN /\ \A u \in DOMAIN tasks :
                       u \in DOMAIN c.st.tasks /\ c.st.tasks[u] = tasks[u]
                 /\ \A u \in DOMAIN c.st.tasks \ DOMAIN tasks :
                       /\ ~c.st.tasks[u].resolved
                       /\ c.st.tasks[u].result = Undefined
                       /\ c.st.tasks[u].runs = 0
    /\ \A t \in DOMAIN tasks :
          ~thrown =>
              LET r == Step(State, t)
              IN /\ DOMAIN tasks \subseteq DOMAIN r.st.tasks
                 /\ \A u \in DOMAIN r.st.tasks :
                       ChangedBetween(State, r.st, u) =>
                           /\ RunsIn(r.st, u) > RunsIn(State, u)
                           /\ \/ u = t
                              \/ \E v \in DOMAIN r.st.tasks :
                                    /\ v # u
                                    /\ RunsIn(r.st, v) > RunsIn(State, v)
                                    /\ u \in HeldDuring(State, r.st, v)

\* a choice task that nobody stepped is still pending although both of its
\* alternatives, stepped on their own, are resolved
C24_Witness ==
    \E t \in DOMAIN tasks :
        /\ t.p.kind = "choice"
        /\ Len(t.p.parsers) = 2
        /\ t.p.parsers[1] # t.p.parsers[2]
        /\ tasks[t].runs = 0
        /\ ~tasks[t].resolved
        /\ \A k \in 1..2 : tasks[tasks[t].tasks[k]].resolved

RECURSIVE Nodes(_)
\* the number of nodes of the tree of parser p
Nodes(p) ==
    LET RECURSIVE Sum(_)
        Sum(k) == IF k = 0 THEN 0 ELSE Nodes(p.parsers[k]) + Sum(k - 1)
    IN 1 + Sum(Len(p.parsers))

RECURSIVE HasEmptySequence(_)
\* parser p is, or has somewhere below it, a sequence of no parsers
HasEmptySequence(p) ==
    \/ p.kind = "sequence" /\ p.parsers = <<>>
    \/ \E k \in 1..Len(p.parsers) : HasEmptySequence(p.parsers[k])

\* C25: the task of a parser built from str, non-empty sequence and choice
\* resolves within as many handler runs as the parser's tree has nodes,
\* whoever stepped it or its sub-tasks before: while it is unresolved it has
\* had fewer runs than that, each step() call on it returns after exactly one
\* more run, and the call that makes the runs as many as the nodes, if it
\* comes to that, returns true.
C25_DriverTerminates ==
    \A t \in DOMAIN tasks :
        ~HasEmptySequence(t.p) =>
            /\ tasks[t].runs <= Nodes(t.p)
            /\ ~tasks[t].resolved => tasks[t].runs < Nodes(t.p)
            /\ (~tasks[t].resolved /\ ~thrown) =>
                  LET r == Step(State, t)
                  IN /\ ~r.st.thrown
                     /\ r.st.tasks[t].runs = tasks[t].runs + 1
                     /\ r.st.tasks[t].runs = Nodes(t.p) => r.ret

\* a sequence holding a sequence resolved at its second step() call, and a
\* str task resolved at its first, which is as many calls as its tree has nodes
C25_Witness ==
    /\ \E t \in DOMAIN tasks :
          /\ t.p.kind = "sequence"
          /\ \E k \in 1..Len(t.p.parsers) : t.p.parsers[k].kind = "sequence"
          /\ tasks[t].resolved
          /\ tasks[t].runs = 2
    /\ \E t \in DOMAIN tasks :
          /\ t.p.kind = "str"
          /\ tasks[t].resolved
          /\ tasks[t].runs = Nodes(t.p)

RECURSIVE BuildAlone(_, _)
\* parser p built again from state st, children first, by the combinators
BuildAlone(st, p) ==
    IF p.kind = "str" THEN Combinator(st, "str", <<p.value>>)
    ELSE LET RECURSIVE Children(_, _, _)
             Children(s1, k, acc) ==
                 IF k > Len(p.parsers) THEN [st |-> s1, ret |-> acc]
                 ELSE LET b == BuildAlone(s1, p.parsers[k])
                      IN Children(b.st, k + 1, acc \o b.ret)
             c == Children(st, 1, <<>>)
         IN Combinator(c.st, p.kind, <<c.ret>>)

RECURSIVE Drive(_, _, _)
\* do { done = task.step() } while (!done), for at most k calls: the result
\* the task resolved to, Undefined if it did not, [thrown |-> TRUE] on a throw
Drive(st, t, k) ==
    IF k = 0 THEN Undefined
    ELSE LET r == Step(st, t)
         IN IF r.st.thrown THEN [thrown |-> TRUE]
            ELSE IF r.ret THEN r.st.tasks[t].result
            ELSE Drive(r.st, t, k - 1)

\* the result of parser p on input when the program does nothing else:
\* empty memo arrays, the parser built, its task requested and driven
RunAlone(p, input) ==
    LET b == BuildAlone(Empty, p)
        c == Call(b.st, b.ret[1], input)
    IN IF c.st.thrown THEN [thrown |-> TRUE]
       ELSE Drive(c.st, c.ret[1], Nodes(p))

\* C26: whatever the driver built, requested and stepped, in whatever order,
\* and whatever sub-tasks the tasks share, a resolved task carries the result
\* its parser gives on its input when run alone from empty memo arrays.
C26_InterleavingIndependence ==
    \A t \in DOMAIN tasks :
        tasks[t].resolved => tasks[t].result = RunAlone(t.p, t.input)

\* a choice resolved in a single call because the driver had stepped its
\* first alternative, a sequence, to the end beforehand (alone it takes two
\* calls), its second alternative being a Success from the first call on
C26_Witness ==
    \E t \in DOMAIN tasks :
        /\ t.p.kind = "choice"
        /\ Len(t.p.parsers) = 2
        /\ t.p.parsers[1].kind = "sequence"
        /\ t.p.parsers[2].kind = "str"
        /\ tasks[t].resolved
        /\ tasks[t].runs = 1
        /\ tasks[tasks[t].tasks[1]].runs = 2
        /\ tasks[tasks[t].tasks[1]].result.success
        /\ tasks[tasks[t].tasks[2]].result.success
        /\ tasks[t].result = tasks[tasks[t].tasks[1]].result

RECURSIVE Later(_)
\* the grammar of parser p written with the later choice: every choice2 node
\* becomes a choice node
Later(p) ==
    [kind |-> IF p.kind = "choice2" THEN "choice" ELSE p.kind,
     value |-> p.value,
     parsers |-> [k \in 1..Len(p.parsers) |-> Later(p.parsers[k])],
     n |-> p.n]

\* C27: for every list of alternatives and every input, the choice that
\* returns at the first Success and the choice that waits for every
\* alternative resolve, each run alone, to the same Result.
C27_ChoicesAgree ==
    \A p \in DOMAIN parsers, input \in Inputs :
        p.kind = "choice2" => RunAlone(p, input) = RunAlone(Later(p), input)

\* C28: whatever is registered, constructing a parser hands back a Parser
\* that was constructed with the same combinator kind and equal arguments:
\* the same literal for str, the same list of child parsers for sequence and
\* choice.
C28_NoFalseSharing ==
    /\ \A value \in RegistryLiterals :
          RegistryStr(State, value).ret[1].handler =
              [kind |-> "str", value |-> value, parsers |-> <<>>]
    /\ \A ps \in ParserLists :
          /\ RegistrySequence(State, ps).ret[1].handler =
                [kind |-> "sequence", value |-> <<>>, parsers |-> ps]
          /\ RegistryChoice(State, ps).ret[1].handler =
                [kind |-> "choice", value |-> <<>>, parsers |-> ps]

====
